---------------------------- MODULE Spec2Model ----------------------------
(***************************************************************************)
(* keyboard_remote: setup(), the two lifecycle listeners and the capture   *)
(* loop KeyboardRemote.run() of                                            *)
(* src/homeassistant/components/keyboard_remote.py.                        *)
(*                                                                         *)
(* The loop is modelled statement by statement (pc names the next          *)
(* statement of run()), because the stop listener sets the Event from      *)
(* another thread between any two of them.  The device node, the events the *)
(* device delivers and the success of open()/grab() belong to the          *)
(* environment and are chosen nondeterministically.                        *)
(***************************************************************************)
EXTENDS Integers, Sequences, FiniteSets, TLC

(* ------------------------------ bounds -------------------------------- *)

\* events (not None) the device delivers over one run
MaxReads == 2
\* times the device node is removed over one run
MaxUnplugs == 1

(* --------------------------- program constants ------------------------ *)

\* evdev.ecodes.EV_KEY, compared with event.type at line 157
EV_KEY == 1

KEYBOARD_REMOTE_COMMAND_RECEIVED == "keyboard_remote_command_received"

Types == {"key_up", "key_down", "key_hold"}

\* mutant of KEY_VALUE: the conventional order (1 = press, 0 = release)
KEY_VALUE_Swapped(t) ==
    CASE t = "key_up"   -> 1
      [] t = "key_down" -> 0
      [] t = "key_hold" -> 2

\* KEY_VALUE = {'key_up': 0, 'key_down': 1, 'key_hold': 2}
KEY_VALUE(t) ==
    CASE t = "key_up"   -> 0
      [] t = "key_down" -> 1
      [] t = "key_hold" -> 2

(* ------------------------------ data ---------------------------------- *)

Codes == {30, 107}
\* an input class other than EV_KEY (EV_REL)
NonKeyTypes == {2}
Values == {0, 1, 2}

\* evdev InputEvent: type, code, value.  Key events of two codes and
\* relative-axis events of one axis (REL_X), each with every value
RawEvents ==
    [type : {EV_KEY}, code : Codes, value : Values]
        \cup [type : NonKeyTypes, code : {0}, value : Values]

\* read_one() returns None when nothing is pending
NoEvent == [type |-> -1, code |-> -1, value |-> -1]

\* the configured device_descriptor: missing/empty, or a path
Descriptors == {"", "/dev/input/by-id/foo"}

\* the per-iteration record kept for the properties (not program state):
\* what the current iteration of the while loop has done so far
FreshIteration(connected) ==
    [startConnected |-> connected, checked |-> FALSE, sawPath |-> FALSE,
     slept |-> FALSE, opens |-> 0, grabs |-> 0, reads |-> 0, emits |-> 0,
     fail |-> FALSE]

VARIABLES
    cfgDescriptor,   \* config[DEVICE_DESCRIPTOR]
    cfgType,         \* config[TYPE]
    pathExists,      \* os.path.exists(device_descriptor), as the OS has it now
    unplugs,         \* removals of the device node so far
    setupPc,         \* position in setup()
    listeners,       \* one-shot listeners registered on the bus
    hostState,       \* "booting", "running", "stopping"
    startHandler,    \* _start_keyboard_remote: none/pending/active/returned/raised
    stopHandler,     \* _stop_keyboard_remote: none/pending/returned
    runThread,       \* the thread executing run(): none/handler/background
    handles,         \* every InputDevice created: [open, grabbed, stale]
    dev,             \* self.dev: index into handles, 0 before construction
    key_value,       \* self.key_value
    stopped,         \* self.stopped (threading.Event)
    pc,              \* next statement of run()
    keyboard_connected,        \* local of run()
    keyboard_still_connected,  \* local of run()
    event,           \* local of run()
    fired,           \* notifications handed to hass.bus.fire, in order
    readLog,         \* events read_one() returned (None excluded), in order
    lastRead,        \* the handle the last read_one() was made on
    it,              \* the per-iteration record
    readsAfterStop,  \* read_one() calls made while the Event was set
    emitsAfterStop,  \* hass.bus.fire calls made while the Event was set
    raisedAt         \* the statement whose exception left run(), or "none"

vars == <<cfgDescriptor, cfgType, pathExists, unplugs, setupPc, listeners,
          hostState, startHandler, stopHandler, runThread, handles, dev,
          key_value, stopped, pc, keyboard_connected,
          keyboard_still_connected, event, fired, readLog, lastRead, it,
          readsAfterStop, emitsAfterStop, raisedAt>>

cfgVars == <<cfgDescriptor, cfgType>>
envVars == <<pathExists, unplugs>>
setupVars == <<setupPc, listeners>>
hostVars == <<hostState, startHandler, stopHandler, runThread>>
loopVars == <<pc, keyboard_connected, keyboard_still_connected, event>>
histVars == <<fired, readLog, lastRead, it, readsAfterStop, emitsAfterStop,
              raisedAt>>

LoopPcs == {"test", "exists", "sleep", "open", "grab", "read", "filter"}
RunningPcs == LoopPcs \cup {"grab0"}

Init ==
    /\ cfgDescriptor \in Descriptors
    /\ cfgType \in Types
    /\ pathExists \in BOOLEAN
    /\ unplugs = 0
    /\ setupPc = "check"
    /\ listeners = {}
    /\ hostState = "booting"
    /\ startHandler = "none"
    /\ stopHandler = "none"
    /\ runThread = "none"
    /\ handles = <<>>
    /\ dev = 0
    /\ key_value = -1
    /\ stopped = FALSE
    /\ pc = "idle"
    /\ keyboard_connected = FALSE
    /\ keyboard_still_connected = FALSE
    /\ event = NoEvent
    /\ fired = <<>>
    /\ readLog = <<>>
    /\ lastRead = [handle |-> 0, grabbed |-> FALSE, stale |-> FALSE]
    /\ it = FreshIteration(TRUE)
    /\ readsAfterStop = 0
    /\ emitsAfterStop = 0
    /\ raisedAt = "none"

(* ---------------------------- environment ----------------------------- *)

\* the device is unplugged: the node goes away and every session opened on
\* it stops working (its reads fail with ENODEV)
Unplug ==
    /\ pathExists
    /\ unplugs < MaxUnplugs
    /\ pathExists' = FALSE
    /\ unplugs' = unplugs + 1
    /\ handles' = [h \in DOMAIN handles |->
                      [handles[h] EXCEPT !.stale = handles[h].open]]
    /\ UNCHANGED <<cfgVars, setupVars, hostVars, dev, key_value, stopped,
                   loopVars, histVars>>

\* the device is plugged in again: a new node under the same path
Plug ==
    /\ ~pathExists
    /\ pathExists' = TRUE
    /\ UNCHANGED <<cfgVars, unplugs, setupVars, hostVars, handles, dev,
                   key_value, stopped, loopVars, histVars>>

\* InputDevice(path): os.open of the node; fails when the node is absent and
\* may be rejected (permissions) when it is present
OpenOutcomes == IF pathExists THEN {TRUE, FALSE} ELSE {FALSE}

\* dev.grab(): EVIOCGRAB; fails on a dead session and may be rejected
\* (grabbed elsewhere)
GrabOutcomes(h) == IF handles[h].stale THEN {FALSE} ELSE {TRUE, FALSE}

NewHandle == [open |-> TRUE, grabbed |-> FALSE, stale |-> FALSE]

\* mutant of Grabbed: the grab is not requested
Grabbed_NotRequested(hs, h) == hs

\* lines 123 and 141: what a successful self.dev.grab() does to the handle
Grabbed(hs, h) == [hs EXCEPT ![h].grabbed = TRUE]

(* ------------------------------- setup -------------------------------- *)

\* mutant of DescriptorUsable: the path is not looked up
DescriptorUsable_NonEmptyOnly == cfgDescriptor # ""

\* line 69, negated: the descriptor is given and os.path.exists finds it
DescriptorUsable == cfgDescriptor # "" /\ pathExists

\* lines 67-76: no descriptor, or no such path: log and return None
SetupCheck ==
    /\ setupPc = "check"
    /\ IF ~DescriptorUsable
          THEN setupPc' = "failed"
          ELSE setupPc' = "construct"
    /\ UNCHANGED <<cfgVars, envVars, listeners, hostVars, handles, dev,
                   key_value, stopped, loopVars, histVars>>

\* lines 78-84 and 107-116, with where setup goes when InputDevice() at
\* line 111 raises as a parameter
SetupConstructThen(afterOpenError) ==
    /\ setupPc = "construct"
    /\ \E ok \in OpenOutcomes :
          IF ok
             THEN /\ handles' = Append(handles, NewHandle)
                  /\ dev' = Len(handles) + 1
                  /\ key_value' = KEY_VALUE(cfgType)
                  /\ setupPc' = "register"
             ELSE /\ setupPc' = afterOpenError
                  /\ UNCHANGED <<handles, dev, key_value>>
    /\ UNCHANGED <<cfgVars, envVars, listeners, hostVars, stopped, loopVars,
                   histVars>>

\* mutant of SetupConstruct: the failed open is swallowed and setup goes on
\* to register the listeners
SetupConstruct_SwallowsOpenError == SetupConstructThen("register")

\* lines 78-84 and 107-116: KEY_VALUE lookup and KeyboardRemote.__init__,
\* which opens the device; nothing catches a failing open, which raises out
\* of __init__ and out of setup
SetupConstruct == SetupConstructThen("raised")

\* lines 92-101: both listen_once registrations, return True
SetupRegister ==
    /\ setupPc = "register"
    /\ listeners' = {"start", "stop"}
    /\ setupPc' = "done"
    /\ UNCHANGED <<cfgVars, envVars, hostVars, handles, dev, key_value,
                   stopped, loopVars, histVars>>

(* ------------------------- lifecycle listeners ------------------------ *)

\* the host fires EVENT_HOMEASSISTANT_START once setup is over; a listen_once
\* listener is removed when it is dispatched
HostReady ==
    /\ hostState = "booting"
    /\ setupPc \in {"failed", "raised", "done"}
    /\ hostState' = "running"
    /\ IF "start" \in listeners
          THEN startHandler' = "pending"
          ELSE UNCHANGED startHandler
    /\ listeners' = listeners \ {"start"}
    /\ UNCHANGED <<cfgVars, envVars, setupPc, stopHandler, runThread, handles,
                   dev, key_value, stopped, loopVars, histVars>>

\* the thread on which _start_keyboard_remote makes the loop run
StartedOnBackground == "background"

\* line 87: keyboard_remote.run() is a plain call, so run() executes on the
\* thread that runs the listener (Thread.start() is never called)
StartedOn == "handler"

\* lines 86-87 and 120-121: the listener enters run()
StartKeyboardRemote ==
    /\ startHandler = "pending"
    /\ startHandler' = (IF StartedOn = "handler" THEN "active" ELSE "returned")
    /\ runThread' = StartedOn
    /\ pc' = "grab0"
    /\ UNCHANGED <<cfgVars, envVars, setupVars, hostState, stopHandler,
                   handles, dev, key_value, stopped, keyboard_connected,
                   keyboard_still_connected, event, histVars>>

\* run() has returned or raised: the listener that called it ends
StartHandlerEnds ==
    /\ startHandler = "active"
    /\ pc \in {"done", "raised"}
    /\ startHandler' = (IF pc = "done" THEN "returned" ELSE "raised")
    /\ UNCHANGED <<cfgVars, envVars, setupVars, hostState, stopHandler,
                   runThread, handles, dev, key_value, stopped, loopVars,
                   histVars>>

\* the host fires EVENT_HOMEASSISTANT_STOP
HostStopping ==
    /\ hostState = "running"
    /\ hostState' = "stopping"
    /\ IF "stop" \in listeners
          THEN stopHandler' = "pending"
          ELSE UNCHANGED stopHandler
    /\ listeners' = listeners \ {"stop"}
    /\ UNCHANGED <<cfgVars, envVars, setupPc, startHandler, runThread,
                   handles, dev, key_value, stopped, loopVars, histVars>>

\* lines 89-90: keyboard_remote.stopped.set()
StopKeyboardRemote ==
    /\ stopHandler = "pending"
    /\ stopped' = TRUE
    /\ stopHandler' = "returned"
    /\ UNCHANGED <<cfgVars, envVars, setupVars, hostState, startHandler,
                   runThread, handles, dev, key_value, loopVars, histVars>>

(* ------------------------------- run() -------------------------------- *)

\* lines 123-124: self.dev.grab(); keyboard_connected = True
RunGrab ==
    /\ pc = "grab0"
    /\ \E ok \in GrabOutcomes(dev) :
          IF ok
             THEN /\ handles' = Grabbed(handles, dev)
                  /\ keyboard_connected' = TRUE
                  /\ pc' = "test"
                  /\ UNCHANGED raisedAt
             ELSE /\ pc' = "raised"
                  /\ raisedAt' = "grab0"
                  /\ UNCHANGED <<handles, keyboard_connected>>
    /\ UNCHANGED <<cfgVars, envVars, setupVars, hostVars, dev, key_value,
                   stopped, keyboard_still_connected, event, fired, readLog,
                   lastRead, it, readsAfterStop, emitsAfterStop>>

\* mutant of WhileCondition: the flag is looked at only while connected
WhileCondition_ConnectedOnly == ~(stopped /\ keyboard_connected)

\* mutant of WhileCondition: the flag is never looked at
WhileCondition_Forever == TRUE

\* line 126: while not self.stopped.isSet()
WhileCondition == ~stopped

\* mutant of LoopTest: the loop clears the Event when it has seen it
LoopTest_ClearsFlag ==
    /\ pc = "test"
    /\ IF WhileCondition
          THEN /\ pc' = "exists"
               /\ it' = FreshIteration(keyboard_connected)
               /\ UNCHANGED stopped
          ELSE /\ pc' = "done"
               /\ stopped' = FALSE
               /\ UNCHANGED it
    /\ UNCHANGED <<cfgVars, envVars, setupVars, hostVars, handles, dev,
                   key_value, keyboard_connected, keyboard_still_connected,
                   event, fired, readLog, lastRead, readsAfterStop,
                   emitsAfterStop, raisedAt>>

\* line 126: the test at the top of every iteration
LoopTest ==
    /\ pc = "test"
    /\ IF WhileCondition
          THEN /\ pc' = "exists"
               /\ it' = FreshIteration(keyboard_connected)
          ELSE /\ pc' = "done"
               /\ UNCHANGED it
    /\ UNCHANGED <<cfgVars, envVars, setupVars, hostVars, handles, dev,
                   key_value, stopped, keyboard_connected,
                   keyboard_still_connected, event, fired, readLog, lastRead,
                   readsAfterStop, emitsAfterStop, raisedAt>>

\* mutant of AfterPathCheck: no settle delay before the device is reopened
AfterPathCheck_NoSleep(connected, still) ==
    IF ~connected /\ ~still THEN "test"
    ELSE IF ~connected /\ still THEN "open"
    ELSE "read"

\* mutant of AfterPathCheck: a disconnected iteration that finds the path
\* absent does not continue but goes on to read
AfterPathCheck_AbsentReads(connected, still) ==
    IF ~connected /\ still THEN "sleep" ELSE "read"

\* mutant of AfterPathCheck: an absent path ends the iteration in either
\* state, so a connected loop skips its read
AfterPathCheck_AbsentSkips(connected, still) ==
    IF ~still THEN "test"
    ELSE IF ~connected THEN "sleep"
    ELSE "read"

\* mutant of AfterPathCheck: a disconnected iteration that finds the path
\* present reads without reopening the device
AfterPathCheck_NoReacquire(connected, still) ==
    IF ~connected /\ ~still THEN "test" ELSE "read"

\* lines 132-136: where the iteration goes once the path has been looked at
AfterPathCheck(connected, still) ==
    IF ~connected /\ ~still THEN "test"
    ELSE IF ~connected /\ still THEN "sleep"
    ELSE "read"

\* lines 129-136: os.path.exists and the two tests that follow it
CheckPath ==
    /\ pc = "exists"
    /\ keyboard_still_connected' = pathExists
    /\ pc' = AfterPathCheck(keyboard_connected, pathExists)
    /\ it' = [it EXCEPT !.checked = TRUE, !.sawPath = pathExists]
    /\ UNCHANGED <<cfgVars, envVars, setupVars, hostVars, handles, dev,
                   key_value, stopped, keyboard_connected, event, fired,
                   readLog, lastRead, readsAfterStop, emitsAfterStop,
                   raisedAt>>

\* line 139: time.sleep(1)
SettleDelay ==
    /\ pc = "sleep"
    /\ pc' = "open"
    /\ it' = [it EXCEPT !.slept = TRUE]
    /\ UNCHANGED <<cfgVars, envVars, setupVars, hostVars, handles, dev,
                   key_value, stopped, keyboard_connected,
                   keyboard_still_connected, event, fired, readLog, lastRead,
                   readsAfterStop, emitsAfterStop, raisedAt>>

\* line 140: self.dev = InputDevice(self.device_descriptor).  Nothing closes
\* the previous InputDevice; the statement is outside any try, so a failing
\* open leaves run() as an exception
Reopen ==
    /\ pc = "open"
    /\ it' = [it EXCEPT !.opens = @ + 1]
    /\ \E ok \in OpenOutcomes :
          IF ok
             THEN /\ handles' = Append(handles, NewHandle)
                  /\ dev' = Len(handles) + 1
                  /\ pc' = "grab"
                  /\ UNCHANGED raisedAt
             ELSE /\ pc' = "raised"
                  /\ raisedAt' = "open"
                  /\ UNCHANGED <<handles, dev>>
    /\ UNCHANGED <<cfgVars, envVars, setupVars, hostVars, key_value, stopped,
                   keyboard_connected, keyboard_still_connected, event, fired,
                   readLog, lastRead, readsAfterStop, emitsAfterStop>>

\* lines 141-142: self.dev.grab(); keyboard_connected = True
Regrab ==
    /\ pc = "grab"
    /\ it' = [it EXCEPT !.grabs = @ + 1]
    /\ \E ok \in GrabOutcomes(dev) :
          IF ok
             THEN /\ handles' = Grabbed(handles, dev)
                  /\ keyboard_connected' = TRUE
                  /\ pc' = "read"
                  /\ UNCHANGED raisedAt
             ELSE /\ pc' = "raised"
                  /\ raisedAt' = "grab"
                  /\ UNCHANGED <<handles, keyboard_connected>>
    /\ UNCHANGED <<cfgVars, envVars, setupVars, hostVars, dev, key_value,
                   stopped, keyboard_still_connected, event, fired, readLog,
                   lastRead, readsAfterStop, emitsAfterStop>>

\* the previous InputDevice is referenced by nothing once line 140 has
\* rebound self.dev; the runtime may finalise it (closing its descriptor) at
\* any later moment, or never
ReleaseUnreferenced ==
    /\ \E h \in DOMAIN handles :
          /\ h # dev
          /\ handles[h].open
          /\ handles' = [handles EXCEPT ![h] =
                            [open |-> FALSE, grabbed |-> FALSE, stale |-> FALSE]]
    /\ UNCHANGED <<cfgVars, envVars, setupVars, hostVars, dev, key_value,
                   stopped, loopVars, histVars>>

\* what read_one() can return on a live session: None, or the next event
ReadResults ==
    {NoEvent} \cup (IF Len(readLog) < MaxReads THEN RawEvents ELSE {})

\* lines 144-151, with what the except clause does as parameters: the value
\* it leaves in keyboard_connected and the statement it goes on to
ReadOneThen(connectedAfterIOError, afterIOError) ==
    /\ pc = "read"
    /\ lastRead' = [handle |-> dev, grabbed |-> handles[dev].grabbed,
                    stale |-> handles[dev].stale]
    /\ readsAfterStop' = readsAfterStop + (IF stopped THEN 1 ELSE 0)
    /\ IF handles[dev].stale
          THEN \* except IOError: keyboard_connected = False; continue
               /\ keyboard_connected' = connectedAfterIOError
               /\ pc' = afterIOError
               /\ it' = [it EXCEPT !.reads = @ + 1, !.fail = TRUE]
               /\ UNCHANGED <<event, readLog>>
          ELSE /\ \E e \in ReadResults :
                    /\ event' = e
                    /\ readLog' = (IF e = NoEvent THEN readLog
                                                  ELSE Append(readLog, e))
               /\ pc' = "filter"
               /\ it' = [it EXCEPT !.reads = @ + 1]
               /\ UNCHANGED keyboard_connected
    /\ UNCHANGED <<cfgVars, envVars, setupVars, hostVars, handles, dev,
                   key_value, stopped, keyboard_still_connected, fired,
                   emitsAfterStop, raisedAt>>

\* mutant of ReadOne: the except clause neither records the disconnection
\* nor continues, so the stale event goes on to the filter
ReadOne_FallThrough == ReadOneThen(keyboard_connected, "filter")

\* lines 144-151: event = self.dev.read_one(), IOError means disconnected
ReadOne == ReadOneThen(FALSE, "test")

\* line 157: event.type is ecodes.EV_KEY and event.value is self.key_value
\* (identity of small ints is equality of their values)
Accepts(e, kv) == e.type = EV_KEY /\ e.value = kv

\* lines 159-162: the (event name, {key_code: code}) pair given to bus.fire
Notification(e) ==
    [event_type |-> KEYBOARD_REMOTE_COMMAND_RECEIVED, key_code |-> e.code]

\* mutant of Fire: the notification is delivered twice
Fire_Twice(log, e) == Append(Append(log, Notification(e)), Notification(e))

\* lines 159-162: self.hass.bus.fire(...)
Fire(log, e) == Append(log, Notification(e))

\* lines 153-162: skip None, filter, fire
FilterAndFire ==
    /\ pc = "filter"
    /\ pc' = "test"
    /\ IF event # NoEvent /\ Accepts(event, key_value)
          THEN /\ fired' = Fire(fired, event)
               /\ it' = [it EXCEPT !.emits = @ + 1]
               /\ emitsAfterStop' = emitsAfterStop + (IF stopped THEN 1 ELSE 0)
          ELSE UNCHANGED <<fired, it, emitsAfterStop>>
    /\ UNCHANGED <<cfgVars, envVars, setupVars, hostVars, handles, dev,
                   key_value, stopped, keyboard_connected,
                   keyboard_still_connected, event, readLog, lastRead,
                   readsAfterStop, raisedAt>>

(* --------------------------- specifications --------------------------- *)

LoopStep ==
    \/ RunGrab
    \/ LoopTest
    \/ CheckPath
    \/ SettleDelay
    \/ Reopen
    \/ Regrab
    \/ ReadOne
    \/ FilterAndFire

Next ==
    \/ SetupCheck
    \/ SetupConstruct
    \/ SetupRegister
    \/ HostReady
    \/ StartKeyboardRemote
    \/ StartHandlerEnds
    \/ HostStopping
    \/ StopKeyboardRemote
    \/ RunGrab
    \/ LoopTest
    \/ CheckPath
    \/ SettleDelay
    \/ Reopen
    \/ Regrab
    \/ ReadOne
    \/ FilterAndFire
    \/ ReleaseUnreferenced
    \/ Unplug
    \/ Plug

Spec == Init /\ [][Next]_vars

\* the default configuration of line 59 (type: key_up); the type selects
\* which events are notified and never which statement the loop executes
DefaultTypeInit == Init /\ cfgType = "key_up"

\* the thread that runs run() keeps being scheduled: every statement of the
\* loop returns (read_one does not block, the sleep is one second)
FairSpec == DefaultTypeInit /\ [][Next]_vars /\ WF_vars(LoopStep)

(* ------------------------------ properties ---------------------------- *)

\* the value each configured type selects, as the specification states it
WantedValue(t) == IF t = "key_up" THEN 0 ELSE IF t = "key_down" THEN 1 ELSE 2

\* the filter step of run(): lines 153-162 have been executed
FilterStep == pc = "filter" /\ pc' = "test"

\* C1: for every event read and every configured type, the filter step fires
\* a notification exactly when the event is a KEY event whose value is the
\* one mapped from the type (key_up -> 0, key_down -> 1, key_hold -> 2); the
\* notification carries the fixed event name and the event's code; a
\* rejected event, None and every other step fire nothing.
C1_EmitIffKeyAndMappedValue ==
    [][ /\ FilterStep =>
             IF /\ event # NoEvent
                /\ event.type = 1
                /\ event.value = WantedValue(cfgType)
                THEN fired' = Append(fired,
                         [event_type |-> "keyboard_remote_command_received",
                          key_code |-> event.code])
                ELSE fired' = fired
        /\ ~FilterStep => fired' = fired ]_vars

\* C1 witness: in key_hold mode a value-2 key event has been notified with
\* its code and a value-0 key event read after it has been dropped.
C1_Witness ==
    /\ cfgType = "key_hold"
    /\ pc = "test"
    /\ Len(readLog) = 2
    /\ readLog[1] = [type |-> 1, code |-> 107, value |-> 2]
    /\ readLog[2] = [type |-> 1, code |-> 30, value |-> 0]
    /\ fired = <<[event_type |-> "keyboard_remote_command_received",
                  key_code |-> 107]>>

\* C2: a failed open or grab during reconnection is not fatal: run() is never
\* left by an exception of the re-acquire statements (the loop stays
\* disconnected and keeps running).
C2_ReacquireFailureAbsorbed ==
    ~(pc = "raised" /\ raisedAt \in {"open", "grab"})

\* C3 as stated: no notification is fired once the Event is set.
C3_NoEmitAfterStop == emitsAfterStop = 0

\* C3 amended: once the Event is set at most one more notification is fired,
\* by the iteration already past its top-of-loop test, and the next thing the
\* loop does after it is that test (which ends the loop).
C3_AtMostOneEmitAfterStop ==
    /\ emitsAfterStop <= 1
    /\ emitsAfterStop = 1 => pc \in {"test", "done"}

\* C3 witness: the loop has ended after firing one notification that came
\* after the Event was set.
C3_Witness == stopped /\ pc = "done" /\ emitsAfterStop = 1

\* C4: once the Event is set, a running loop eventually leaves run(), from
\* either connection state and whether or not the path exists.
C4_StopLeadsToExit ==
    (stopped /\ pc \in RunningPcs) ~> (pc \in {"done", "raised"})

\* C4 witness: the loop has ended on the Event while disconnected with the
\* path absent.
C4_Witness ==
    /\ stopped
    /\ pc = "done"
    /\ ~keyboard_connected
    /\ ~pathExists
    /\ it.checked /\ ~it.sawPath

\* C5: when the loop has ended on the Event, the handle it holds has been
\* released.
C5_HandleReleasedAtExit == pc = "done" => ~handles[dev].open

\* C6: the loop runs on a background thread of its own, the start listener
\* having returned without waiting for it.
C6_LoopOnBackgroundThread ==
    pc \in LoopPcs => (runThread = "background" /\ startHandler = "returned")

\* C7: an iteration whose read failed with a disconnection error leaves the
\* loop disconnected, has fired nothing, has made that one read only and goes
\* straight back to the top-of-loop test.
C7_ReadFailureDisconnects ==
    it.fail => /\ ~keyboard_connected
               /\ it.emits = 0
               /\ it.reads = 1
               /\ pc \in {"test", "done"}

\* C7 witness: an iteration that began connected, after an earlier
\* notification, has had its read fail.
C7_Witness ==
    /\ it.fail
    /\ it.startConnected
    /\ Len(fired) = 1
    /\ pc = "test"

\* an iteration that began disconnected and found the path present
ReconnectIteration == ~it.startConnected /\ it.checked /\ it.sawPath

\* C8: an iteration that begins disconnected and finds the path present makes
\* exactly one acquire attempt (one open, at most one grab), after the settle
\* delay and in no other kind of iteration; when the attempt succeeds the
\* loop is connected on a newly opened, grabbed handle and goes on to read
\* and filter.
C8_OneAcquireAfterSettle ==
    /\ it.opens <= 1 /\ it.grabs <= it.opens
    /\ it.opens = 1 => (ReconnectIteration /\ it.slept)
    /\ (ReconnectIteration /\ pc \in {"grab", "read", "filter", "test",
                                      "done", "raised"})
          => (it.opens = 1 /\ it.slept)
    /\ (ReconnectIteration /\ pc \in {"read", "filter"})
          => /\ it.grabs = 1
             /\ keyboard_connected
             /\ dev = Len(handles)
             /\ handles[dev].open /\ handles[dev].grabbed
    /\ (ReconnectIteration /\ pc = "filter") => lastRead.handle = dev

\* C8 witness: the iteration that reconnected has read an event on the new
\* handle and fired its notification.
C8_Witness ==
    /\ ReconnectIteration
    /\ it.opens = 1 /\ it.grabs = 1 /\ it.slept
    /\ it.emits = 1
    /\ keyboard_connected

\* the events of a log that pass the filter, as notifications
RECURSIVE NotificationsOf(_, _)
NotificationsOf(log, kv) ==
    IF log = <<>> THEN <<>>
    ELSE IF Head(log).type = 1 /\ Head(log).value = kv
         THEN <<[event_type |-> "keyboard_remote_command_received",
                 key_code |-> Head(log).code]>>
                  \o NotificationsOf(Tail(log), kv)
         ELSE NotificationsOf(Tail(log), kv)

\* the events read so far whose filter step has been executed
Processed ==
    IF pc = "filter" /\ event # NoEvent
       THEN SubSeq(readLog, 1, Len(readLog) - 1)
       ELSE readLog

\* C9: the notifications fired are exactly the accepted events, in the order
\* they were read: none dropped, duplicated or reordered, across
\* disconnections and reconnections too.
C9_FiredIsAcceptedInReadOrder ==
    fired = NotificationsOf(Processed, key_value)

\* C9 witness: two notifications of different codes, the second fired by the
\* iteration that reconnected after a disconnection.
C9_Witness ==
    /\ Len(fired) = 2
    /\ fired[1].key_code # fired[2].key_code
    /\ ReconnectIteration
    /\ it.emits = 1
    /\ unplugs >= 1

\* C10: at most one device handle is open at any time.
C10_AtMostOneOpenHandle ==
    Cardinality({h \in DOMAIN handles : handles[h].open}) <= 1

\* C11 as stated: a rejected open or a rejected grab at startup leaves the
\* capture core unconstructed, no listener registered and the loop unstarted.
C11_StartupRejectionAbortsConstruction ==
    (setupPc = "raised" \/ raisedAt = "grab0")
        => (dev = 0 /\ setupPc # "done" /\ pc = "idle")

\* C11 amended: a rejected open at startup aborts construction (no core, no
\* listener registered then or later, run() never entered), and listeners are
\* registered only for a constructed core.  The grab is made by run(), after
\* construction and registration: a rejected grab at startup raises out of
\* run() before the first iteration, so nothing is ever read or fired.
C11_OpenAbortsSetupGrabAbortsRun ==
    /\ setupPc = "raised"
          => /\ dev = 0 /\ handles = <<>>
             /\ listeners = {}
             /\ startHandler = "none" /\ stopHandler = "none"
             /\ pc = "idle"
    /\ dev = 0 => (listeners = {} /\ pc = "idle")
    /\ raisedAt = "grab0"
          => /\ pc = "raised"
             /\ dev = 1 /\ setupPc = "done"
             /\ ~handles[dev].grabbed
             /\ ~it.checked
             /\ lastRead.handle = 0
             /\ fired = <<>>

\* C11 witness: the grab at the start of run() has been rejected while the
\* device was present, after the listeners had been registered.
C11_Witness ==
    /\ raisedAt = "grab0"
    /\ setupPc = "done"
    /\ unplugs = 0
    /\ startHandler = "raised"

\* the step of setup() that looks at the descriptor (lines 67-76)
SetupCheckStep == setupPc = "check" /\ setupPc' # "check"

\* C12: setup fails when the descriptor is empty or its path does not exist
\* at that moment; a failed setup has constructed nothing, opened nothing and
\* registered no listener, nothing of the component ever runs, and setup is
\* not tried again.
C12_BadDescriptorFailsSetup ==
    [][ /\ (SetupCheckStep /\ (cfgDescriptor = "" \/ ~pathExists))
              => setupPc' = "failed"
        /\ setupPc' = "failed"
              => /\ dev' = 0 /\ handles' = <<>>
                 /\ listeners' = {}
                 /\ startHandler' = "none" /\ stopHandler' = "none"
                 /\ pc' = "idle"
                 /\ ~stopped'
        /\ setupPc = "failed" => setupPc' = "failed" ]_vars

\* C12 witness: setup failed on an absent path; the device has since been
\* plugged in and the host has started and stopped, and nothing was set up.
C12_Witness ==
    /\ setupPc = "failed"
    /\ cfgDescriptor # ""
    /\ pathExists
    /\ hostState = "stopping"
    /\ dev = 0

\* an iteration that began disconnected and found the path absent
StillAbsentIteration == ~it.startConnected /\ it.checked /\ ~it.sawPath

\* C13: a disconnected iteration that finds the path still absent does
\* nothing: no settle delay, no open, no grab, no read, no notification; the
\* loop stays disconnected and is back at the top-of-loop test.
C13_AbsentIterationIsNoOp ==
    StillAbsentIteration
        => /\ ~it.slept
           /\ it.opens = 0 /\ it.grabs = 0
           /\ it.reads = 0
           /\ it.emits = 0
           /\ ~keyboard_connected
           /\ pc \in {"test", "done"}

\* C13 witness: a disconnected loop, not stopped, has passed an iteration
\* with the path absent, after a notification fired while connected.
C13_Witness ==
    /\ StillAbsentIteration
    /\ pc = "test"
    /\ ~stopped
    /\ Len(fired) = 1

\* C14: the Event is set only by the stop listener and never cleared.
C14_StopSignalMonotonic ==
    [][ /\ stopped => stopped'
        /\ stopped' # stopped
              => (stopHandler = "pending" /\ stopHandler' = "returned") ]_vars

\* C14 witness: the loop has ended on the Event, both listeners have
\* returned, and the Event is still set.
C14_Witness ==
    /\ stopped
    /\ pc = "done"
    /\ startHandler = "returned"
    /\ stopHandler = "returned"

\* C15: once the Event is set, the loop makes at most one more read and fires
\* at most one more notification, wherever in the iteration it was; a
\* notification fired after the Event was set comes from a read made in the
\* same iteration, and once the loop has made a read after the Event was set
\* only that iteration's filter step and the exit test remain.
C15_AtMostOneReadAndEmitAfterStop ==
    /\ readsAfterStop <= 1
    /\ emitsAfterStop <= 1
    /\ emitsAfterStop = 1 => it.reads = 1
    /\ readsAfterStop = 1 => pc \in {"filter", "test", "done"}

\* C15 witness: the Event was set while the loop was reconnecting; the loop
\* made one more read, fired its notification and ended.
C15_Witness ==
    /\ ReconnectIteration
    /\ readsAfterStop = 1
    /\ emitsAfterStop = 1
    /\ pc = "done"

\* C16: every read is made on a handle that has been grabbed: the loop is at
\* its read statement only with a grabbed self.dev, and the handle of every
\* read made was grabbed at the time.
C16_ReadsOnGrabbedHandle ==
    /\ pc = "read" => (dev >= 1 /\ handles[dev].grabbed)
    /\ lastRead.handle # 0 => lastRead.grabbed

\* C16 witness: reads have been made on the initial handle and, in the
\* iteration that reconnected, on the second handle, grabbed before the read.
C16_Witness ==
    /\ ReconnectIteration
    /\ it.reads = 1
    /\ lastRead.handle = 2
    /\ lastRead.grabbed
    /\ Len(readLog) = 2

\* the step of run() that looks at the path (lines 129-136)
CheckPathStep == pc = "exists" /\ pc' # "exists"

\* C17: the loop leaves CONNECTED only by a read that fails; a connected
\* iteration that finds the path absent stays connected and goes on to its
\* read on the current handle.
C17_LeavesConnectedOnlyByFailedRead ==
    [][ /\ (keyboard_connected /\ ~keyboard_connected')
              => /\ pc = "read" /\ pc' = "test"
                 /\ handles[dev].stale
                 /\ it'.fail
        /\ (CheckPathStep /\ keyboard_connected /\ ~pathExists)
              => /\ keyboard_connected'
                 /\ pc' = "read"
                 /\ dev' = dev ]_vars

\* C17 witness: a connected iteration saw the path absent, still made its
\* read, and that read failed.
C17_Witness ==
    /\ it.startConnected /\ it.checked /\ ~it.sawPath
    /\ it.reads = 1
    /\ it.fail
    /\ ~keyboard_connected

\* C18: once a read has failed, that handle is never read again: the loop is
\* at its read statement only while connected, on the handle opened last, and
\* never on the handle whose last read failed.
C18_StaleHandleNotReadAgain ==
    /\ pc = "read"
          => /\ keyboard_connected
             /\ dev = Len(handles)
             /\ lastRead.stale => dev > lastRead.handle
    /\ ~keyboard_connected /\ pc \in LoopPcs /\ it.reads > 0 => it.fail
    /\ lastRead.handle <= dev

\* C18 witness: after a disconnection and a reconnection, an iteration later
\* than the reconnecting one has read an event on the second handle.
C18_Witness ==
    /\ Len(handles) = 2
    /\ it.startConnected
    /\ it.reads = 1
    /\ lastRead.handle = 2
    /\ ~lastRead.stale
    /\ pc = "filter" /\ event # NoEvent

=============================================================================
